---- MODULE Spec2Model ----
(***************************************************************************)
(* A model of src/common.py: the tensor transform utility (transform) and  *)
(* the atom-indexed integral provider (AbstractIntegralProvider,            *)
(* IntegralProvider).  Python values are modelled as follows:               *)
(*   - a list / tuple is a sequence; Python's 0-based indices are kept as   *)
(*     values, and element k of a Python list is element k+1 of the         *)
(*     sequence;                                                            *)
(*   - an optional argument is a record [kind, list, int] with kind "None", *)
(*     "list" or "int";                                                     *)
(*   - an n-dimensional array is a record [shape, data], data a function    *)
(*     from the index tuples of the shape to integers;                      *)
(*   - a call's outcome is a record whose field err is "" on return and the *)
(*     exception's name when the call raises.                               *)
(* The molecule (pyscf.gto.Mole) is external to the repository; it is       *)
(* modelled by its shell table _bas, from which pyscf derives the AO labels,*)
(* the per-shell sizes and the integral tensors.                            *)
(***************************************************************************)
EXTENDS Integers, Sequences, FiniteSets, TLC

\* ------------------------------------------------------------------ bounds
MaxAtoms == 2
MaxShells == 3
MaxArgLen == 2
MaxRanges == 2
MaxNdim == 2
MaxAxes == 2
Extent == 2

\* ---------------------------------------------------------------- helpers
RECURSIVE SumSeq(_)
SumSeq(s) == IF s = <<>> THEN 0 ELSE Head(s) + SumSeq(Tail(s))

RECURSIVE ProdSeq(_)
ProdSeq(s) == IF s = <<>> THEN 1 ELSE Head(s) * ProdSeq(Tail(s))

RECURSIVE Flatten(_)
Flatten(ss) == IF ss = <<>> THEN <<>> ELSE Head(ss) \o Flatten(Tail(ss))

\* Sequences over S of length at most n.
SeqUpTo(S, n) == UNION {[1..k -> S] : k \in 0..n}

Range(s) == {s[k] : k \in DOMAIN s}

\* The digits g read as one decimal number.
RECURSIVE Horner(_)
Horner(g) == IF g = <<>> THEN 0 ELSE g[Len(g)] + 10 * Horner(SubSeq(g, 1, Len(g) - 1))

\* The members of a finite set of integers, ascending.
RECURSIVE SortedSeq(_)
SortedSeq(S) ==
    IF S = {} THEN <<>>
    ELSE LET m == CHOOSE x \in S : \A y \in S : x <= y
         IN <<m>> \o SortedSeq(S \ {m})

\* Python's range(a, b) as a sequence.
PyRange(a, b) == [k \in 1..(IF b > a THEN b - a ELSE 0) |-> a + k - 1]

\* The index tuples (0-based) of an array of the given shape.
IdxSet(shape) ==
    IF \E k \in DOMAIN shape : shape[k] = 0 THEN {}
    ELSE LET m == CHOOSE x \in Range(shape) : \A y \in Range(shape) : y <= x
         IN {f \in [DOMAIN shape -> 0..(m - 1)] : \A k \in DOMAIN shape : f[k] < shape[k]}

\* ---------------------------------------------------------- Python strings
\* s[i], s[:hi] and s[lo:] of a Python sequence, negative positions counted
\* from the end and slice bounds clipped.
PyHasIndex(s, i) == -Len(s) <= i /\ i < Len(s)
PyAt(s, i) == IF i >= 0 THEN s[i + 1] ELSE s[Len(s) + i + 1]
PyClip(s, i) ==
    LET j == IF i < 0 THEN i + Len(s) ELSE i
    IN IF j < 0 THEN 0 ELSE IF j > Len(s) THEN Len(s) ELSE j
PySliceTo(s, hi) == SubSeq(s, 1, PyClip(s, hi))
PySliceFrom(s, lo) == SubSeq(s, PyClip(s, lo) + 1, Len(s))

\* ------------------------------------------------------------ numpy.einsum
\* numpy.einsum(ins -> out, *ops): ins the subscripts of the operands, out
\* those of the result, each a sequence of letters.  A letter of differing
\* extents, or an output letter repeated or absent from the inputs, is a
\* ValueError; letters absent from the output are summed over.
Einsum(ins, out, ops) ==
    LET labels == UNION {Range(ins[k]) : k \in DOMAIN ins}
        places == {x \in (DOMAIN ins) \X (1..26) : x[2] <= Len(ins[x[1]])}
        extents(l) == {ops[x[1]].shape[x[2]] : x \in {y \in places : ins[y[1]][y[2]] = l}}
        bad == \/ \E k \in DOMAIN ins : Len(ins[k]) # Len(ops[k].shape)
               \/ \E l \in labels : Cardinality(extents(l)) # 1
               \/ \E q \in DOMAIN out : out[q] \notin labels
               \/ \E q, r \in DOMAIN out : q # r /\ out[q] = out[r]
        ext == [l \in labels |-> CHOOSE e \in extents(l) : TRUE]
        summed == labels \ Range(out)
        m == CHOOSE x \in Range(ext) \cup {1} : \A y \in Range(ext) \cup {1} : y <= x
        assignments == {f \in [summed -> 0..(m - 1)] : \A l \in summed : f[l] < ext[l]}
        shape == [q \in DOMAIN out |-> ext[out[q]]]
        pos(l) == CHOOSE q \in DOMAIN out : out[q] = l
        term(idx, f, k) ==
            ops[k].data[[q \in 1..Len(ins[k]) |->
                IF ins[k][q] \in summed THEN f[ins[k][q]] ELSE idx[pos(ins[k][q])]]]
        entry(idx) ==
            LET RECURSIVE total(_)
                total(S) ==
                    IF S = {} THEN 0
                    ELSE LET f == CHOOSE g \in S : TRUE
                         IN ProdSeq([k \in DOMAIN ins |-> term(idx, f, k)]) + total(S \ {f})
            IN total(assignments)
    IN IF bad THEN [err |-> "ValueError: einsum", val |-> [shape |-> <<>>, data |-> <<>>]]
       ELSE [err |-> "",
             val |-> [shape |-> shape, data |-> [idx \in IdxSet(shape) |-> entry(idx)]]]

\* --------------------------------------------------------------- transform
Letters == <<"a", "b", "c", "d", "e", "f", "g", "h", "i", "j", "k", "l", "m",
             "n", "o", "p", "q", "r", "s", "t", "u", "v", "w", "x", "y", "z">>

\* The axes argument: one of the strings, an integer, or a collection.
AxesStr(x) == [kind |-> "str", str |-> x, int |-> 0, seq |-> <<>>]
AxesInt(a) == [kind |-> "int", str |-> "", int |-> a, seq |-> <<>>]
AxesSeq(q) == [kind |-> "seq", str |-> "", int |-> 0, seq |-> q]

\* Lines 18-27: the axes argument as a tuple of axis indices.
AxesTuple(n, axes) ==
    IF axes.kind = "str" /\ axes.str = "all" THEN PyRange(0, n)
    ELSE IF axes.kind = "str" /\ axes.str = "f2" THEN <<0, 1>>
    ELSE IF axes.kind = "str" /\ axes.str = "l2" THEN <<n - 2, n - 1>>
    ELSE IF axes.kind = "int" THEN <<axes.int>>
    ELSE axes.seq

\* Lines 39-41: the loop building the subscripts from axis i (0-based) on;
\* p the subscripts of the psi operands so far, out the output subscripts.
\* o_subscripts[ax] out of range is an IndexError.
RECURSIVE Subscripts(_, _, _, _, _, _)
Subscripts(o_subscripts, letters, axes, i, p, out) ==
    IF i >= Len(axes) THEN [err |-> "", p |-> p, out |-> out]
    ELSE LET ax == axes[i + 1]
         IN IF ~PyHasIndex(o_subscripts, ax) \/ ~PyHasIndex(letters, i)
            THEN [err |-> "IndexError", p |-> p, out |-> out]
            ELSE Subscripts(o_subscripts, letters, axes, i + 1,
                    Append(p, <<PyAt(o_subscripts, ax), PyAt(letters, i)>>),
                    PySliceTo(out, ax) \o <<PyAt(letters, i)>> \o PySliceFrom(out, ax + 1))

\* Lines 33-43: mode "onecall" for the tuple axes.
OneCall(o, psi, axes) ==
    LET n == Len(o.shape)
        o_subscripts == PySliceTo(Letters, n)
        sub == Subscripts(o_subscripts, PySliceFrom(Letters, n), axes, 0, <<>>, o_subscripts)
    IN IF sub.err # "" THEN [err |-> sub.err, val |-> [shape |-> <<>>, data |-> <<>>]]
       ELSE Einsum(<<o_subscripts>> \o sub.p, sub.out,
                   <<o>> \o [k \in DOMAIN sub.p |-> psi])

\* Lines 28-32: mode "fast", from axis i (0-based) of the tuple on: one
\* "onecall" transform per axis, each on the result of the one before.
RECURSIVE Fast(_, _, _, _)
Fast(result, psi, axes, i) ==
    IF i >= Len(axes) THEN [err |-> "", val |-> result]
    ELSE LET r == OneCall(result, psi, <<axes[i + 1]>>)
         IN IF r.err # "" THEN r ELSE Fast(r.val, psi, axes, i + 1)

\* transform with the check of the mode lost: any other mode runs as the
\* default.
transform_AnyMode(o, psi, axes, mode) ==
    IF mode = "onecall" THEN OneCall(o, psi, AxesTuple(Len(o.shape), axes))
    ELSE Fast(o, psi, AxesTuple(Len(o.shape), axes), 0)

transform(o, psi, axes, mode) ==
    IF mode = "fast" THEN Fast(o, psi, AxesTuple(Len(o.shape), axes), 0)
    ELSE IF mode = "onecall" THEN OneCall(o, psi, AxesTuple(Len(o.shape), axes))
    ELSE [err |-> "ValueError: Unknown mode", val |-> [shape |-> <<>>, data |-> <<>>]]

\* ----------------------------------------------------------- the molecule
AtomIds == 0..(MaxAtoms - 1)

\* A row of mol._bas: the owning atom (gto.ATOM_OF), the angular momentum
\* (gto.ANG_OF) and the number of contracted functions (gto.NCTR_OF).
\* The kinds drawn: an s shell and a d shell, of one contraction each.
ShellKinds == {[ang |-> 0, nctr |-> 1], [ang |-> 2, nctr |-> 1]}

Shells == {[atom_of |-> a, ang |-> k.ang, nctr |-> k.nctr] :
              a \in AtomIds, k \in ShellKinds}

\* The shell tables drawn: at least one shell, atoms numbered in the order in
\* which they first own a shell (pyscf lists the shells of atom 0 first); an
\* atom's shells need not be adjacent, and an atom id may own no shell.
Molecules ==
    {b \in SeqUpTo(Shells, MaxShells) :
        /\ Len(b) >= 1
        /\ b[1].atom_of = 0
        /\ \A k \in 2..Len(b) :
              b[k].atom_of > 0 => \E j \in 1..(k - 1) : b[j].atom_of >= b[k].atom_of - 1}

\* mol.bas_len_cart(i): the number of Cartesian functions of one contraction
\* of shell i, (l+1)(l+2)/2; it depends on the angular momentum alone.
bas_len_cart(bas, i) == ((bas[i + 1].ang + 1) * (bas[i + 1].ang + 2)) \div 2

\* The number of basis functions shell i contributes to the AO list and to
\* every integral tensor of the (spherical) engine: (2l+1) * nctr.
bas_nao(bas, i) == (2 * bas[i + 1].ang + 1) * bas[i + 1].nctr

\* mol.ao_loc: the global index of the first basis function of shell i.
ao_loc(bas, i) == SumSeq([k \in 1..i |-> bas_nao(bas, k - 1)])

\* mol.nbas and the total number of basis functions.
nbas(bas) == Len(bas)
nao(bas) == ao_loc(bas, Len(bas))

\* __ao_labels_at__: the owning atom of every basis function, in AO order.
ao_labels_at(bas) ==
    Flatten([k \in 1..Len(bas) |-> [m \in 1..bas_nao(bas, k - 1) |-> bas[k].atom_of]])

\* ------------------------------------------------------- optional arguments
None == [kind |-> "None", list |-> <<>>, int |-> 0]
PyList(s) == [kind |-> "list", list |-> s, int |-> 0]
PyInt(n) == [kind |-> "int", list |-> <<>>, int |-> n]

\* Lists of atom ids, repeats allowed.
AtomLists == {PyList(s) : s \in SeqUpTo(AtomIds, MaxArgLen)}

\* ---------------------------------------------------------- get_atom_basis
\* (ao[:, newaxis] == array(ids)[newaxis, :]).sum(axis=1) for a 1-d ao:
\* per basis function, the number of entries of ids equal to its atom.
MaskCount(ao, ids) ==
    [i \in 1..Len(ao) |-> Cardinality({j \in 1..Len(ids) : ids[j] = ao[i]})]

\* numpy.argwhere(mask) of a 1-d mask: the positions of its non-zero
\* entries, ascending (as a column: one row per position).
ArgWhere(mask) ==
    LET RECURSIVE go(_)
        go(i) == IF i > Len(mask) THEN <<>>
                 ELSE (IF mask[i] # 0 THEN <<i - 1>> ELSE <<>>) \o go(i + 1)
    IN go(1)

\* numpy.nonzero(mask)[0] of a 2-d mask (a sequence of rows): the row index
\* of every non-zero entry, in row-major order.
NonZeroRows(mask2) ==
    Flatten([i \in 1..Len(mask2) |->
        Flatten([j \in 1..Len(mask2[i]) |->
            IF mask2[i][j] # 0 THEN <<i - 1>> ELSE <<>>])])

\* get_atom_basis with the two masks intersected over the whole basis: the
\* indices returned are molecule-global, not positions within the domain.
get_atom_basis_Global(bas, atoms, domain) ==
    LET ao0 == ao_labels_at(bas)
        sel == IF domain.kind = "None" THEN PyRange(0, Len(ao0))
               ELSE ArgWhere(MaskCount(ao0, domain.list))
    IN  IF atoms.kind = "None" THEN sel
        ELSE SelectSeq(sel, LAMBDA g : ao0[g + 1] \in Range(atoms.list))

get_atom_basis(bas, atoms, domain) ==
    LET ao0 == ao_labels_at(bas)
        \* line 72-73: ao[argwhere(mask)] has shape (k, 1)
        sel == ArgWhere(MaskCount(ao0, domain.list))
        ao == IF domain.kind = "None" THEN ao0
              ELSE [k \in 1..Len(sel) |-> ao0[sel[k] + 1]]
    IN  IF atoms.kind = "None" THEN PyRange(0, Len(ao))
        ELSE IF domain.kind = "None"
             \* ao is 1-d: mask is 1-d, nonzero gives each position once
             THEN ArgWhere(MaskCount(ao, atoms.list))
             \* ao is (k, 1): the comparison broadcasts to (k, 1, len(atoms)),
             \* the sum over axis 1 leaves a (k, len(atoms)) mask
             ELSE NonZeroRows([i \in 1..Len(ao) |->
                     [j \in 1..Len(atoms.list) |->
                        IF ao[i] = atoms.list[j] THEN 1 ELSE 0]])

\* get_block: numpy.ix_ of the basis indices of each axis' atoms, given here
\* as the index lists themselves.
get_block(bas, atoms) == [d \in DOMAIN atoms |-> get_atom_basis(bas, atoms[d], None)]

\* ------------------------------------------------------------ shell_ranges
\* shell[gto.ATOM_OF] in atoms
InAtoms(a, atoms) ==
    IF atoms.kind = "int" THEN a = atoms.int ELSE a \in Range(atoms.list)

\* ScanStep with the merge of line 110-112 lost: every owned shell opens a range.
ScanStep_NoMerge(bas, atoms, result, i) ==
    IF InAtoms(bas[i + 1].atom_of, atoms)
    THEN Append(result, <<i, i + 1>>)
    ELSE result

\* ScanStep with the adjacency test of line 108 lost: once a range is open,
\* every later owned shell extends it.
ScanStep_NoGap(bas, atoms, result, i) ==
    IF InAtoms(bas[i + 1].atom_of, atoms)
    THEN IF Len(result) = 0
         THEN Append(result, <<i, i + 1>>)
         ELSE [result EXCEPT ![Len(result)] = <<@[1], i + 1>>]
    ELSE result

\* One iteration of the loop of shell_ranges (lines 106-112) at shell i.
ScanStep(bas, atoms, result, i) ==
    IF InAtoms(bas[i + 1].atom_of, atoms)
    THEN IF Len(result) = 0 \/ result[Len(result)][2] # i
         THEN Append(result, <<i, i + 1>>)
         ELSE [result EXCEPT ![Len(result)] = <<@[1], @[2] + 1>>]
    ELSE result

RECURSIVE ScanFrom(_, _, _, _)
ScanFrom(bas, atoms, result, i) ==
    IF i >= Len(bas) THEN result
    ELSE ScanFrom(bas, atoms, ScanStep(bas, atoms, result, i), i + 1)

shell_ranges(bas, atoms) ==
    IF atoms.kind = "None" THEN << <<0, nbas(bas)>> >>
    ELSE ScanFrom(bas, atoms, <<>>, 0)

\* ------------------------------------------------------------------ arrays
\* numpy.concatenate(ts, axis=ax) of arrays that agree off the axis.
Concatenate(ts, ax) ==
    LET ext(k) == ts[k].shape[ax + 1]
        off(k) == SumSeq([j \in 1..(k - 1) |-> ext(j)])
        piece(q) == CHOOSE k \in DOMAIN ts : off(k) <= q /\ q < off(k) + ext(k)
        shape == [ts[1].shape EXCEPT ![ax + 1] = SumSeq([k \in DOMAIN ts |-> ext(k)])]
    IN [shape |-> shape,
        data |-> [idx \in IdxSet(shape) |->
            LET k == piece(idx[ax + 1])
            IN ts[k].data[[idx EXCEPT ![ax + 1] = idx[ax + 1] - off(k)]]]]

\* a + b of two arrays of one shape.
ArrayAdd(a, b) ==
    [shape |-> a.shape, data |-> [idx \in IdxSet(a.shape) |-> a.data[idx] + b.data[idx]]]

\* ------------------------------------------------------ the integral engine
\* The value of integral `name` at global basis indices g: the engine is
\* external, its values are taken to be any function of the name and the
\* indices, here one that tells every entry from every other.
Integral(name, g) ==
    (CASE name = "int1e_ovlp_sph" -> 1 [] name = "int1e_kin" -> 2
       [] name = "int1e_nuc" -> 3 [] OTHER -> 4) + 10 * Horner(g)

\* mol.intor(name, shls_slice=slice): per axis the basis functions of the
\* shells slice[2k-1]..slice[2k]-1, each entry the integral at the global
\* indices of its basis functions.
MolIntor(bas, name, slice) ==
    LET n == Len(slice) \div 2
        shape == [k \in 1..n |-> ao_loc(bas, slice[2 * k]) - ao_loc(bas, slice[2 * k - 1])]
    IN [shape |-> shape,
        data |-> [idx \in IdxSet(shape) |->
            Integral(name, [k \in 1..n |-> ao_loc(bas, slice[2 * k - 1]) + idx[k]])]]

\* ------------------------------------------------------------------- intor
\* One positional argument of intor: a plain (start, end) tuple or a list of
\* such tuples.
ShTuple(r) == [kind |-> "tuple", ranges |-> <<r>>]
ShList(rs) == [kind |-> "list", ranges |-> rs]

\* The outcome of a call: err is "" and val the array returned, or err names
\* the exception raised; calls logs the shls_slice of every engine call made.
Raised(e, calls) == [err |-> e, val |-> [shape |-> <<>>, data |-> <<>>], calls |-> calls]
Returned(v, calls) == [err |-> "", val |-> v, calls |-> calls]

\* The first axis (1-based) whose argument is neither a tuple nor a list of
\* one range (the else branch of line 146); 0 when there is none.
FirstSplit(shells) ==
    LET S == {d \in DOMAIN shells : shells[d].kind = "list" /\ Len(shells[d].ranges) # 1}
    IN IF S = {} THEN 0 ELSE CHOOSE d \in S : \A e \in S : d <= e

\* Lines 151-153: the size recorded for an axis resolved to the range r.
BasisSize(bas, r) == SumSeq([k \in 1..(r[2] - r[1]) |-> bas_len_cart(bas, r[1] + k - 1)])

\* Lines 154-157: every axis is resolved; the engine is called once and its
\* result is given the shape recorded in basis_size.
IntorLeaf(bas, name, shells) ==
    LET slice == Flatten([d \in DOMAIN shells |-> shells[d].ranges[1]])
        basis_size == [d \in DOMAIN shells |-> BasisSize(bas, shells[d].ranges[1])]
        result == MolIntor(bas, name, slice)
    IN IF basis_size = result.shape
       THEN Returned(result, <<slice>>)
       \* result.shape = tuple(basis_size) with another shape
       ELSE Raised("ValueError", <<slice>>)

RECURSIVE intor(_, _, _)
\* Lines 147-150: the loop over the ranges of axis d from range k on, ints
\* the sub-tensors got so far; an exception of a recursive call ends it.
RECURSIVE IntorSplit(_, _, _, _, _, _, _)
IntorSplit(bas, name, shells, d, k, ints, calls) ==
    IF k > Len(shells[d].ranges)
    THEN IF ints = <<>>
         \* numpy.concatenate of an empty list
         THEN Raised("ValueError", calls)
         ELSE Returned(Concatenate(ints, d - 1), calls)
    ELSE LET r == intor(bas, name, [shells EXCEPT ![d] = ShTuple(shells[d].ranges[k])])
         IN IF r.err # "" THEN Raised(r.err, calls \o r.calls)
            ELSE IntorSplit(bas, name, shells, d, k + 1, Append(ints, r.val), calls \o r.calls)

intor(bas, name, shells) ==
    IF FirstSplit(shells) = 0 THEN IntorLeaf(bas, name, shells)
    ELSE IntorSplit(bas, name, shells, FirstSplit(shells), 1, <<>>, <<>>)

intor_atoms(bas, name, atoms) ==
    intor(bas, name, [d \in DOMAIN atoms |-> ShList(shell_ranges(bas, atoms[d]))])

get_ovlp(bas, atoms1, atoms2) == intor_atoms(bas, "int1e_ovlp_sph", <<atoms1, atoms2>>)
get_kin(bas, atoms1, atoms2) == intor_atoms(bas, "int1e_kin", <<atoms1, atoms2>>)
get_ext_pot(bas, atoms1, atoms2) == intor_atoms(bas, "int1e_nuc", <<atoms1, atoms2>>)

\* get_hcore with the potential term lost.
get_hcore_KinOnly(bas, atoms1, atoms2) ==
    LET kin == get_kin(bas, atoms1, atoms2)
        pot == get_ext_pot(bas, atoms1, atoms2)
    IN IF kin.err # "" THEN kin
       ELSE IF pot.err # "" THEN Raised(pot.err, kin.calls \o pot.calls)
       ELSE Returned(kin.val, kin.calls \o pot.calls)

get_hcore(bas, atoms1, atoms2) ==
    LET kin == get_kin(bas, atoms1, atoms2)
        pot == get_ext_pot(bas, atoms1, atoms2)
    IN IF kin.err # "" THEN kin
       ELSE IF pot.err # "" THEN Raised(pot.err, kin.calls \o pot.calls)
       ELSE Returned(ArrayAdd(kin.val, pot.val), kin.calls \o pot.calls)

get_eri(bas, atoms1, atoms2, atoms3, atoms4) ==
    intor_atoms(bas, "int2e_sph", <<atoms1, atoms2, atoms3, atoms4>>)

\* ------------------------------------------------------------------ state
VARIABLES
    bas,        \* mol._bas, fixed for the provider's lifetime
    r_op,       \* the resolver call in progress or last made
    r_pc,       \* "idle", "scan" (inside the loop of shell_ranges), "done"
    r_atoms,    \* the atoms argument
    r_domain,   \* the domain argument of get_atom_basis
    r_i,        \* shell_ranges: the number of shells scanned so far
    r_result,   \* shell_ranges: the local list result
    r_ret,      \* the value returned
    p_op,       \* the provider call made
    p_name,     \* the integral name it passes to intor
    p_args,     \* its positional arguments
    p_out,      \* its outcome
    t_op,       \* "transform" once transform has been called
    t_o,        \* its arguments o, psi, axes and mode
    t_psi,
    t_axes,
    t_mode,
    t_out       \* its outcome

rvars == <<r_op, r_pc, r_atoms, r_domain, r_i, r_result, r_ret>>
pvars == <<p_op, p_name, p_args, p_out>>
tvars == <<t_op, t_o, t_psi, t_axes, t_mode, t_out>>

\* No call made yet, of the resolver, of the provider and of transform.
ResolverIdle ==
    /\ r_op = "none" /\ r_pc = "idle" /\ r_atoms = None /\ r_domain = None
    /\ r_i = 0 /\ r_result = <<>> /\ r_ret = <<>>
ProviderIdle ==
    /\ p_op = "none" /\ p_name = "" /\ p_args = <<>>
    /\ p_out = [err |-> "", val |-> [shape |-> <<>>, data |-> <<>>], calls |-> <<>>]
TransformIdle ==
    /\ t_op = "none" /\ t_o = <<>> /\ t_psi = <<>> /\ t_axes = <<>> /\ t_mode = ""
    /\ t_out = [err |-> "", val |-> [shape |-> <<>>, data |-> <<>>]]

\* The provider after construction (line 55): it holds the molecule; no call
\* has been made.
Init == bas \in Molecules /\ ResolverIdle /\ ProviderIdle /\ TransformIdle

\* The atoms arguments of shell_ranges: None, one atom id, a list.
ShellRangesArgs == {None} \cup {PyInt(a) : a \in AtomIds} \cup AtomLists

\* shell_ranges, lines 101-105: the entry, up to the loop.
ShellRangesCall ==
    /\ r_pc = "idle"
    /\ \E a \in ShellRangesArgs :
        /\ r_atoms' = a
        /\ IF a.kind = "None"
           THEN r_pc' = "done" /\ r_ret' = << <<0, nbas(bas)>> >>
           ELSE r_pc' = "scan" /\ r_ret' = <<>>
    /\ r_op' = "shell_ranges" /\ r_domain' = None
    /\ r_i' = 0 /\ r_result' = <<>>
    /\ UNCHANGED <<bas, pvars, tvars>>

\* shell_ranges, lines 106-112: one iteration of the loop.
ShellRangesStep ==
    /\ r_pc = "scan" /\ r_i < nbas(bas)
    /\ r_result' = ScanStep(bas, r_atoms, r_result, r_i)
    /\ r_i' = r_i + 1
    /\ UNCHANGED <<bas, r_op, r_pc, r_atoms, r_domain, r_ret, pvars, tvars>>

\* shell_ranges, line 113.
ShellRangesReturn ==
    /\ r_pc = "scan" /\ r_i = nbas(bas)
    /\ r_pc' = "done" /\ r_ret' = r_result
    /\ UNCHANGED <<bas, r_op, r_atoms, r_domain, r_i, r_result, pvars, tvars>>

\* get_atom_basis, lines 70-78, as one step.
GetAtomBasis ==
    /\ r_pc = "idle"
    /\ \E a \in {None} \cup AtomLists, d \in {None} \cup AtomLists :
        /\ r_atoms' = a /\ r_domain' = d
        /\ r_ret' = get_atom_basis(bas, a, d)
    /\ r_op' = "get_atom_basis" /\ r_pc' = "done"
    /\ r_i' = 0 /\ r_result' = <<>>
    /\ UNCHANGED <<bas, pvars, tvars>>

ResolverNext == ShellRangesCall \/ ShellRangesStep \/ ShellRangesReturn \/ GetAtomBasis

\* ------------------------------------------------------ the provider's calls
\* The atom subsets passed per axis: None, or the atoms of a set in order.
AtomSubsets == {None} \cup {PyList(SortedSeq(S)) : S \in SUBSET AtomIds}

\* The four subsets of a get_eri call drawn: at most two different ones.
EriArgs == {t \in [1..4 -> AtomSubsets] : Cardinality(Range(t)) <= 2}

GetOvlp ==
    /\ p_op = "none"
    /\ \E a1, a2 \in AtomSubsets :
        p_args' = <<a1, a2>> /\ p_out' = get_ovlp(bas, a1, a2)
    /\ p_op' = "get_ovlp" /\ p_name' = "int1e_ovlp_sph"
    /\ UNCHANGED <<bas, rvars, tvars>>

GetKin ==
    /\ p_op = "none"
    /\ \E a1, a2 \in AtomSubsets :
        p_args' = <<a1, a2>> /\ p_out' = get_kin(bas, a1, a2)
    /\ p_op' = "get_kin" /\ p_name' = "int1e_kin"
    /\ UNCHANGED <<bas, rvars, tvars>>

GetExtPot ==
    /\ p_op = "none"
    /\ \E a1, a2 \in AtomSubsets :
        p_args' = <<a1, a2>> /\ p_out' = get_ext_pot(bas, a1, a2)
    /\ p_op' = "get_ext_pot" /\ p_name' = "int1e_nuc"
    /\ UNCHANGED <<bas, rvars, tvars>>

GetHcore ==
    /\ p_op = "none"
    /\ \E a1, a2 \in AtomSubsets :
        p_args' = <<a1, a2>> /\ p_out' = get_hcore(bas, a1, a2)
    /\ p_op' = "get_hcore" /\ p_name' = "int1e_kin+int1e_nuc"
    /\ UNCHANGED <<bas, rvars, tvars>>

GetEri ==
    /\ p_op = "none"
    /\ \E t \in EriArgs :
        p_args' = t /\ p_out' = get_eri(bas, t[1], t[2], t[3], t[4])
    /\ p_op' = "get_eri" /\ p_name' = "int2e_sph"
    /\ UNCHANGED <<bas, rvars, tvars>>

ProviderNext == GetOvlp \/ GetKin \/ GetExtPot \/ GetHcore \/ GetEri

\* ------------------------------------------------------ direct calls of intor
\* The shell ranges of the molecule, and the arguments drawn for one axis: a
\* plain range, or a list of one to MaxRanges ranges in any order.
ValidRanges == {r \in (0..nbas(bas)) \X (0..nbas(bas)) : r[1] < r[2]}
ShellArgs ==
    {ShTuple(r) : r \in ValidRanges}
        \cup {ShList(rs) : rs \in {q \in SeqUpTo(ValidRanges, MaxRanges) : Len(q) >= 1}}

\* intor called with two axes.
Intor2 ==
    /\ p_op = "none"
    /\ \E x, y \in ShellArgs :
        p_args' = <<x, y>> /\ p_out' = intor(bas, "int1e_ovlp_sph", <<x, y>>)
    /\ p_op' = "intor" /\ p_name' = "int1e_ovlp_sph"
    /\ UNCHANGED <<bas, rvars, tvars>>

\* intor called with four axes; the arguments drawn repeat after two and
\* name at most two shells each.
Intor4 ==
    /\ p_op = "none"
    /\ \E x, y \in {a \in ShellArgs :
                     SumSeq([k \in DOMAIN a.ranges |-> a.ranges[k][2] - a.ranges[k][1]]) <= 2} :
        p_args' = <<x, y, x, y>> /\ p_out' = intor(bas, "int2e_sph", <<x, y, x, y>>)
    /\ p_op' = "intor" /\ p_name' = "int2e_sph"
    /\ UNCHANGED <<bas, rvars, tvars>>

IntorNext == Intor2 \/ Intor4

\* --------------------------------------------------------- calls of transform
\* The arrays o drawn: n axes of one extent, the entries counting up in
\* row-major order from 0 or from 1.
Shape(n) == [q \in 1..n |-> Extent]
RampArrays(n) ==
    {[shape |-> Shape(n), data |-> [idx \in IdxSet(Shape(n)) |-> v + Horner(idx)]] : v \in {0, 1}}

\* The matrices psi drawn: Extent rows, one to Extent columns, entries 0
\* but for at most two entries 1.
PsiArrays ==
    UNION {{[shape |-> <<Extent, c>>, data |-> d] :
               d \in {e \in [IdxSet(<<Extent, c>>) -> {0, 1}] :
                         Cardinality({x \in DOMAIN e : e[x] = 1}) <= 2}} :
              c \in 1..Extent}

\* The axes drawn for an array of n axes: the three names, an axis, and the
\* collections of at most MaxAxes axes, repeats allowed.
AxesArgs(n) ==
    {AxesStr("all"), AxesStr("f2"), AxesStr("l2")}
        \cup {AxesInt(a) : a \in 0..(n - 1)}
        \cup {AxesSeq(q) : q \in SeqUpTo(0..(n - 1), MaxAxes)}

Modes == {"fast", "onecall", "slow"}

\* The arguments of a call of transform about to be made.
TransformArgs ==
    \E n \in 1..MaxNdim :
        /\ t_o \in RampArrays(n) /\ t_psi \in PsiArrays
        /\ t_axes \in AxesArgs(n) /\ t_mode \in Modes

\* transform, lines 17-45, as one step.
Transform ==
    /\ t_op = "call"
    /\ t_op' = "transform"
    /\ t_out' = transform(t_o, t_psi, t_axes, t_mode)
    /\ UNCHANGED <<bas, rvars, pvars, t_o, t_psi, t_axes, t_mode>>

vars == <<bas, rvars, pvars, tvars>>

\* transform is a function of its arguments alone: they are drawn at the
\* start; it takes no molecule, and one shell table stands for all.
InitTransform ==
    /\ bas = <<[atom_of |-> 0, ang |-> 0, nctr |-> 1]>>
    /\ ResolverIdle /\ ProviderIdle
    /\ t_op = "call" /\ TransformArgs
    /\ t_out = [err |-> "", val |-> [shape |-> <<>>, data |-> <<>>]]

SpecTransform == InitTransform /\ [][Transform]_vars

SpecResolver == Init /\ [][ResolverNext]_vars

SpecProvider == Init /\ [][ProviderNext]_vars

SpecIntor == Init /\ [][IntorNext]_vars

\* ------------------------------------------------- properties of the resolver
NoRepeat(s) == \A j, k \in DOMAIN s : j # k => s[j] # s[k]
StrictlyAscending(s) == \A k \in 1..(Len(s) - 1) : s[k] < s[k + 1]

\* Atom a is selected by an optional list (None selects every atom).
Selects(arg, a) == arg.kind = "None" \/ \E k \in DOMAIN arg.list : arg.list[k] = a

\* Shell j (0-based) is owned by an atom named by the atoms argument.
Owned(j) ==
    IF r_atoms.kind = "int" THEN bas[j + 1].atom_of = r_atoms.int
    ELSE \E k \in DOMAIN r_atoms.list : r_atoms.list[k] = bas[j + 1].atom_of

ShellsOf(rs) == UNION {rs[k][1]..(rs[k][2] - 1) : k \in DOMAIN rs}

\* C3: at every step of the scan of shell_ranges (and in the list returned)
\* the ranges are non-empty, strictly increasing with a gap between
\* neighbours, and cover exactly the owned shells among those scanned.
C3_RangesMaximal ==
    (r_op = "shell_ranges" /\ r_atoms.kind # "None") =>
        /\ \A k \in DOMAIN r_result : r_result[k][1] < r_result[k][2]
        /\ \A k \in 1..(Len(r_result) - 1) : r_result[k][2] < r_result[k + 1][1]
        /\ ShellsOf(r_result) = {j \in 0..(r_i - 1) : Owned(j)}
        /\ (r_pc = "done" => r_i = nbas(bas) /\ r_ret = r_result)

C3_Witness ==
    /\ r_op = "shell_ranges" /\ r_pc = "done" /\ r_atoms.kind = "list"
    /\ Len(r_ret) = 2

\* The basis indices of the shells of a list of ranges, range by range and
\* shell by shell, each shell contributing its basis functions.
RangeBasis(rs) ==
    Flatten([k \in DOMAIN rs |->
        Flatten([j \in 1..(rs[k][2] - rs[k][1]) |->
            PyRange(ao_loc(bas, rs[k][1] + j - 1), ao_loc(bas, rs[k][1] + j))])])

\* C4: the basis indices covered by shell_ranges(A) are the sequence
\* get_atom_basis(A), nothing repeated, omitted or reordered.
C4_RangesCoverAtomBasis ==
    (r_op = "shell_ranges" /\ r_pc = "done" /\ r_atoms.kind # "int") =>
        RangeBasis(r_ret) = get_atom_basis(bas, r_atoms, None)

C4_Witness ==
    /\ r_op = "shell_ranges" /\ r_pc = "done" /\ r_atoms.kind = "list"
    /\ Len(r_ret) = 2
    /\ \E j \in ShellsOf(r_ret) : bas_nao(bas, j) > 1
    /\ Len(RangeBasis(r_ret)) < nao(bas)

\* The basis functions whose atom lies in the domain, in molecule order, and
\* the positions within that list of those whose atom lies in atoms.
DomainPool == SortedSeq({g \in 0..(nao(bas) - 1) : Selects(r_domain, ao_labels_at(bas)[g + 1])})
ExpectedBasis ==
    SortedSeq({q \in 0..(Len(DomainPool) - 1) :
                 Selects(r_atoms, ao_labels_at(bas)[DomainPool[q + 1] + 1])})

\* C5: for duplicate-free atoms and domain, get_atom_basis returns, ascending,
\* the positions within the domain-restricted list of the functions owned by
\* atoms (all positions when atoms is None, global indices when domain is None).
C5_DomainThenAtoms ==
    (r_op = "get_atom_basis" /\ NoRepeat(r_atoms.list) /\ NoRepeat(r_domain.list)) =>
        r_ret = ExpectedBasis

C5_Witness ==
    /\ r_op = "get_atom_basis" /\ r_atoms.kind = "list" /\ r_domain.kind = "list"
    /\ NoRepeat(r_atoms.list) /\ NoRepeat(r_domain.list)
    /\ \E k \in DOMAIN r_ret : DomainPool[r_ret[k] + 1] # r_ret[k]

\* C10: whatever repeats atoms and domain hold, get_atom_basis returns a
\* strictly ascending sequence, the one of the duplicate-free arguments.
C10_AscendingNoRepeat ==
    r_op = "get_atom_basis" => StrictlyAscending(r_ret) /\ r_ret = ExpectedBasis

\* ------------------------------------------------- properties of the provider
\* Axis d of the call names at least one shell of the molecule.
SelectsShell(d) == \E j \in 1..nbas(bas) : Selects(p_args[d], bas[j].atom_of)

\* The engine's tensor computed without any restriction.
FullTensor == MolIntor(bas, p_name, Flatten([d \in DOMAIN p_args |-> <<0, nbas(bas)>>]))

\* get_block: per axis, the basis indices of its atom subset.
BlockIndices == get_block(bas, p_args)

\* C1: with a non-empty subset on every axis, the accessor returns the full
\* tensor sliced by get_block: axis d has extent len(get_atom_basis(A_d)) and
\* entry idx is the full tensor's entry at the basis indices of idx.
C1_BlockOfFullTensor ==
    (p_op \in {"get_ovlp", "get_kin", "get_ext_pot", "get_eri"}
        /\ \A d \in DOMAIN p_args : SelectsShell(d)) =>
        LET full == FullTensor
            block == BlockIndices
        IN /\ p_out.err = ""
           /\ p_out.val.shape = [d \in DOMAIN p_args |-> Len(block[d])]
           /\ \A idx \in IdxSet(p_out.val.shape) :
                 p_out.val.data[idx] =
                     full.data[[d \in DOMAIN p_args |-> block[d][idx[d] + 1]]]

\* C2: with an axis whose subset names no shell, the accessor raises nothing
\* and returns a tensor of extent zero on that axis.
C2_EmptyAxisZeroExtent ==
    (p_op \in {"get_ovlp", "get_kin", "get_ext_pot", "get_hcore", "get_eri"}
        /\ \E d \in DOMAIN p_args : ~SelectsShell(d)) =>
        /\ p_out.err = ""
        /\ Len(p_out.val.shape) = Len(p_args)
        /\ \A d \in DOMAIN p_args : ~SelectsShell(d) => p_out.val.shape[d] = 0

\* C8: get_hcore(a1, a2) returns when get_kin(a1, a2) and get_ext_pot(a1, a2)
\* do, with their shape and, entry by entry, their sum.
C8_HcoreIsKinPlusPot ==
    p_op = "get_hcore" =>
        LET kin == get_kin(bas, p_args[1], p_args[2])
            pot == get_ext_pot(bas, p_args[1], p_args[2])
        IN IF kin.err # "" \/ pot.err # "" THEN p_out.err # ""
           ELSE /\ p_out.err = ""
                /\ p_out.val.shape = kin.val.shape /\ p_out.val.shape = pot.val.shape
                /\ DOMAIN p_out.val.data = IdxSet(kin.val.shape)
                /\ \A idx \in IdxSet(kin.val.shape) :
                      p_out.val.data[idx] = kin.val.data[idx] + pot.val.data[idx]

C8_Witness ==
    /\ p_op = "get_hcore" /\ p_out.err = ""
    /\ p_out.val.shape = <<2, 1>>
    /\ Len(p_out.calls) = 4

\* The combinations of one range per axis, the first axis varying slowest.
RECURSIVE Combos(_)
Combos(lists) ==
    IF lists = <<>> THEN << <<>> >>
    ELSE LET rest == Combos(Tail(lists))
         IN Flatten([k \in DOMAIN Head(lists) |->
                [j \in DOMAIN rest |-> <<Head(lists)[k]>> \o rest[j]]])

\* C9: intor calls the engine once per combination of one range per axis,
\* each time with 2n bounds in axis order, and returns the sub-tensors
\* concatenated along every axis in the order of its range list.
C9_OneEngineCallPerCombination ==
    p_op = "intor" =>
        LET n == Len(p_args)
            combos == Combos([d \in 1..n |-> p_args[d].ranges])
            axis == [d \in 1..n |-> RangeBasis(p_args[d].ranges)]
        IN /\ p_out.err = ""
           /\ p_out.calls = [j \in DOMAIN combos |-> Flatten(combos[j])]
           /\ \A j \in DOMAIN p_out.calls : Len(p_out.calls[j]) = 2 * n
           /\ p_out.val.shape = [d \in 1..n |-> Len(axis[d])]
           /\ \A idx \in IdxSet(p_out.val.shape) :
                 p_out.val.data[idx] =
                     Integral(p_name, [d \in 1..n |-> axis[d][idx[d] + 1]])

\* ------------------------------------------------- properties of transform
\* C6: mode "onecall" and mode "fast" end alike on the same o, psi and axes:
\* equal arrays of equal shape (or, where one raises, the same exception).
C6_ModesAgree ==
    (t_op = "transform" /\ t_mode = "onecall") =>
        t_out = transform(t_o, t_psi, t_axes, "fast")

\* C7: transform ends in the unknown-mode ValueError, returning no array,
\* exactly when the mode is neither "fast" nor "onecall".
C7_UnknownModeRaises ==
    t_op = "transform" =>
        /\ t_mode \notin {"fast", "onecall"} <=> t_out.err = "ValueError: Unknown mode"
        /\ t_out.err = "ValueError: Unknown mode" => t_out.val.shape = <<>>
        /\ (t_mode = "fast" /\ AxesTuple(Len(t_o.shape), t_axes) = <<>>) => t_out.val = t_o

C7_Witness ==
    /\ t_op = "transform" /\ t_mode = "slow" /\ t_axes = AxesSeq(<<>>)
    /\ t_out.err = "ValueError: Unknown mode"

====
